---- MODULE Spec2Model ----
(***************************************************************************)
(* The process supervisor of timeout/timeout.cpp (class Timeout, POSIX     *)
(* variant): start_process, wait_for_process, terminate_process,           *)
(* kill_process and run, together with the child process and the steady    *)
(* clock they interact with.                                               *)
(*                                                                         *)
(* Texts (signal_name) are sequences of one-character strings.             *)
(* Time is counted in ticks of PollMs milliseconds since the start_time of *)
(* the wait in progress.                                                   *)
(***************************************************************************)
EXTENDS Integers, Sequences, FiniteSets, TLC

\* ------------------------------------------------------------------ bounds
MaxDuration == 2
MaxKillAfter == 1
MaxExitCode == 2
MaxOversleep == 1

\* ------------------------------------------------------- program constants
SIGHUP == 1
SIGINT == 2
SIGKILL == 9
SIGUSR1 == 10
SIGUSR2 == 12
SIGTERM == 15
SIGCHLD == 17
SIGCONT == 18
SIGSTOP == 19
SIGTSTP == 20
SIGTTIN == 21
SIGTTOU == 22
SIGURG == 23
SIGWINCH == 28
SIGRTMAX == 64
INT_MAX == 2147483647
PollMs == 100
MsPerSecond == 1000
ExecFailCode == 127
NotInvokableCode == 126
FailCode == 125
TimedOutCode == 124
KilledCode == 137
CompletedCode == 0
NoPid == -1
TerminateExitCode == 1

VARIABLES
    duration_seconds,    \* int duration_seconds
    kill_after_seconds,  \* int kill_after_seconds
    signal_name,         \* std::string signal_name
    preserve_status,     \* bool preserve_status
    verbose,             \* bool verbose
    command_args,        \* std::vector<std::string> command_args
    child_pid,           \* pid_t child_pid
    pc,                  \* position of the control thread inside run()
    phase,               \* which call of wait_for_process is in progress
    ticks,               \* steady_clock::now() - start_time, in ticks
    ret,                 \* value returned by run(); NoRet until it returns
    childState,          \* "none", "running", "zombie" or "reaped"
    childStatus,         \* the child's translated exit status, -1 while alive
    childIgnores,        \* the child ignores every catchable signal
    pendingSig,          \* fatal signal generated for the child, 0 if none
    sigchldIgnored,      \* SIGCHLD disposition inherited by the supervisor
    termSent,            \* kill() calls made by terminate_process
    killSent,            \* kill() calls made by kill_process
    diag,                \* lines written to std::cerr by the two senders
    observed,            \* the wait whose waitpid collected the child
    exitedInTime,        \* the child ended during the main wait, before
                         \* the elapsed whole seconds reached the duration
    waitFailed,          \* a waitpid / WaitForSingleObject call has failed
    externalSig,         \* signal, not sent by the supervisor, that ended
                         \* the child; 0 if none
    argv,                \* argv[1..argc-1] of main, each a text
    parsed,              \* how parse_args ended: "none" before the call
    process_handle,      \* HANDLE process_handle (Windows variant):
                         \* "INVALID", "open" or "closed"
    handle_closes,       \* calls of CloseHandle(process_handle) so far
    stale_calls          \* calls that were handed process_handle after it
                         \* had been closed

config == <<duration_seconds, kill_after_seconds, signal_name,
            preserve_status, verbose, command_args>>
childVars == <<childState, childStatus, childIgnores, pendingSig>>
counters == <<termSent, killSent, diag>>
vars == <<duration_seconds, kill_after_seconds, signal_name, preserve_status,
          verbose, command_args, child_pid, pc, phase, ticks, ret,
          childState, childStatus, childIgnores, pendingSig, sigchldIgnored,
          termSent, killSent, diag, observed, exitedInTime, waitFailed,
          externalSig, argv, parsed, process_handle, handle_closes,
          stale_calls>>
inputs == <<argv, parsed>>
handle == <<process_handle, handle_closes, stale_calls>>
env == <<sigchldIgnored, externalSig, inputs, handle>>

NoRet == -1

\* ------------------------------------------------------------------- texts
Digits == <<"0", "1", "2", "3", "4", "5", "6", "7", "8", "9">>
IsDigit(c) == \E i \in 1..10 : Digits[i] = c
DigitVal(c) == (CHOOSE i \in 1..10 : Digits[i] = c) - 1

\* the vertical tab, character 11, for which TLA+ has no escape
VerticalTab == ""

\* isspace in the "C" locale
IsSpace(c) == c \in {" ", "\t", "\n", VerticalTab, "\f", "\r"}

\* the least index of i..(j - 1) that is in S, and j if there is none: the
\* place where a scan from i that stops at an index of S, or at j, ends
RECURSIVE Least(_, _, _)
Least(S, i, j) ==
    IF j <= i THEN i
    ELSE IF j = i + 1 THEN (IF i \in S THEN i ELSE j)
    ELSE LET mid == (i + j) \div 2
             a   == Least(S, i, mid)
         IN  IF a < mid THEN a ELSE Least(S, mid, j)

\* index of the first character of s at or after i that is not white space
SkipSpace(s, i) ==
    Least({k \in 1..Len(s) : ~IsSpace(s[k])}, i, Len(s) + 1)

\* index just past the run of digits of s that starts at i
DigitsEnd(s, i) ==
    Least({k \in 1..Len(s) : ~IsDigit(s[k])}, i, Len(s) + 1)

UpperCase == <<"A", "B", "C", "D", "E", "F", "G", "H", "I", "J", "K", "L", "M",
               "N", "O", "P", "Q", "R", "S", "T", "U", "V", "W", "X", "Y", "Z">>
LowerCase == <<"a", "b", "c", "d", "e", "f", "g", "h", "i", "j", "k", "l", "m",
               "n", "o", "p", "q", "r", "s", "t", "u", "v", "w", "x", "y", "z">>
IsUpper(c) == \E i \in 1..26 : UpperCase[i] = c
IsLower(c) == \E i \in 1..26 : LowerCase[i] = c
ToLower(c) ==
    IF IsUpper(c) THEN LowerCase[CHOOSE i \in 1..26 : UpperCase[i] = c] ELSE c
IsHexDigit(c) == IsDigit(c) \/ ToLower(c) \in {"a", "b", "c", "d", "e", "f"}
HexVal(c) ==
    IF IsDigit(c) THEN DigitVal(c)
    ELSE 9 + (CHOOSE i \in 1..6 : LowerCase[i] = ToLower(c))

RECURSIVE Pow(_, _)
Pow(b, n) == IF n <= 0 THEN 1 ELSE b * Pow(b, n - 1)

\* --------------------------------------------------------- natural numbers
\* std::stoi and std::stod read numbers wider than an int, and the double
\* has a significand wider than an int.  A natural number is kept as the
\* sequence of its digits to the base Base, least significant first and
\* without a zero as the most significant one; <<>> is 0.  A digit times
\* 2^ChunkBits is in the range of the arithmetic, and
\* 2^ChunkBits <= Base < 2^(ChunkBits + 1).
LimbDigits == 4
Base == Pow(10, LimbDigits)
ChunkBits == 13

\* the natural number n, 0 <= n <= INT_MAX
Big(n) ==
    IF n = 0 THEN <<>>
    ELSE IF n < Base THEN <<n>>
    ELSE IF n < Base * Base THEN <<n % Base, n \div Base>>
    ELSE <<n % Base, (n \div Base) % Base, n \div (Base * Base)>>

\* the int that a is, for a <= INT_MAX
IntOf(a) ==
    (IF Len(a) >= 1 THEN a[1] ELSE 0)
    + (IF Len(a) >= 2 THEN a[2] * Base ELSE 0)
    + (IF Len(a) >= 3 THEN a[3] * Base * Base ELSE 0)

\* The digits d of a * k + c and the carry c out of them, digit by digit
\* from the least significant one (the lower half of the digits first, then
\* the upper half with the carry of the lower), for k, c <= 2^17.
RECURSIVE MulDigits(_, _, _)
MulDigits(a, k, c) ==
    IF a = <<>> THEN [d |-> <<>>, c |-> c]
    ELSE IF Len(a) = 1
    THEN [d |-> <<(a[1] * k + c) % Base>>, c |-> (a[1] * k + c) \div Base]
    ELSE LET h  == Len(a) \div 2
             lo == MulDigits(SubSeq(a, 1, h), k, c)
             hi == MulDigits(SubSeq(a, h + 1, Len(a)), k, lo.c)
         IN  [d |-> lo.d \o hi.d, c |-> hi.c]

\* a * k + c, for 1 <= k and k, c <= 2^17
MulAdd(a, k, c) == LET p == MulDigits(a, k, c) IN p.d \o Big(p.c)

\* The digits q of the quotient of r * Base^Len(a) + a by k, most
\* significant first, and the remainder r, digit by digit from the most
\* significant one (the upper half of the digits first, then the lower half
\* with the remainder of the upper), for r < k and k <= Base.
RECURSIVE DivDigits(_, _, _)
DivDigits(a, k, r) ==
    IF a = <<>> THEN [q |-> <<>>, r |-> r]
    ELSE IF Len(a) = 1
    THEN [q |-> <<(r * Base + a[1]) \div k>>, r |-> (r * Base + a[1]) % k]
    ELSE LET h  == Len(a) \div 2
             hi == DivDigits(SubSeq(a, h + 1, Len(a)), k, r)
             lo == DivDigits(SubSeq(a, 1, h), k, hi.r)
         IN  [q |-> hi.q \o lo.q, r |-> lo.r]

\* quotient q and remainder r of a by k, for 1 <= k <= Base
DivRem(a, k) ==
    LET d == DivDigits(a, k, 0)
        n == IF d.q # <<>> /\ d.q[1] = 0 THEN Len(a) - 1 ELSE Len(a)
    IN  [q |-> [i \in 1..n |-> d.q[Len(a) + 1 - i]], r |-> d.r]

\* -1, 0 or 1 as a is less than, equal to or greater than b
Cmp(a, b) ==
    LET D == {i \in 1..Len(a) : Len(a) = Len(b) /\ a[i] # b[i]}
        i == CHOOSE x \in D : \A y \in D : y <= x
    IN  IF Len(a) # Len(b) THEN (IF Len(a) < Len(b) THEN -1 ELSE 1)
        ELSE IF D = {} THEN 0
        ELSE IF a[i] < b[i] THEN -1 ELSE 1

\* the digits d of a + b + c and the carry c out of them, for a and b of
\* the same number of digits
RECURSIVE AddDigits(_, _, _)
AddDigits(a, b, c) ==
    IF a = <<>> THEN [d |-> <<>>, c |-> c]
    ELSE IF Len(a) = 1
    THEN [d |-> <<(a[1] + b[1] + c) % Base>>, c |-> (a[1] + b[1] + c) \div Base]
    ELSE LET h  == Len(a) \div 2
             lo == AddDigits(SubSeq(a, 1, h), SubSeq(b, 1, h), c)
             hi == AddDigits(SubSeq(a, h + 1, Len(a)), SubSeq(b, h + 1, Len(b)),
                             lo.c)
         IN  [d |-> lo.d \o hi.d, c |-> hi.c]

\* a + b
Add(a, b) ==
    LET n == IF Len(a) > Len(b) THEN Len(a) ELSE Len(b)
        p == AddDigits(a \o [i \in 1..(n - Len(a)) |-> 0],
                       b \o [i \in 1..(n - Len(b)) |-> 0], 0)
    IN  p.d \o Big(p.c)

\* a * 2^n
RECURSIVE TimesPow2(_, _)
TimesPow2(a, n) ==
    IF n <= 0 \/ a = <<>> THEN a
    ELSE IF n <= ChunkBits THEN MulAdd(a, Pow(2, n), 0)
    ELSE TimesPow2(TimesPow2(a, n \div 2), n - n \div 2)

\* the quotient q of a by 2^n; sticky says that the division left a remainder
RECURSIVE DivPow2(_, _)
DivPow2(a, n) ==
    IF n <= 0 \/ a = <<>> THEN [q |-> a, sticky |-> FALSE]
    ELSE IF n <= ChunkBits
    THEN LET d == DivRem(a, Pow(2, n)) IN [q |-> d.q, sticky |-> d.r # 0]
    ELSE LET lo == DivPow2(a, n \div 2)
             hi == DivPow2(lo.q, n - n \div 2)
         IN  [q |-> hi.q, sticky |-> lo.sticky \/ hi.sticky]

\* the least n in lo..hi with a < 2^n
RECURSIVE LeastBits(_, _, _)
LeastBits(a, lo, hi) ==
    IF lo >= hi THEN lo
    ELSE LET mid == (lo + hi) \div 2 IN
         IF Cmp(a, TimesPow2(Big(1), mid)) < 0 THEN LeastBits(a, lo, mid)
         ELSE LeastBits(a, mid + 1, hi)

\* the number of bits of a: the least n with a < 2^n
BitLen(a) ==
    IF a = <<>> THEN 0
    ELSE LeastBits(a, ChunkBits * (Len(a) - 1) + 1, (ChunkBits + 1) * Len(a))

\* a * 10^n
TimesPow10(a, n) ==
    IF a = <<>> THEN a
    ELSE [i \in 1..(n \div LimbDigits) |-> 0]
         \o MulAdd(a, Pow(10, n % LimbDigits), 0)

\* the quotient q of a by 10^n; sticky says that the division left a remainder
DivPow10(a, n) ==
    LET limbs == IF n \div LimbDigits < Len(a) THEN n \div LimbDigits ELSE Len(a)
        d     == DivRem(SubSeq(a, limbs + 1, Len(a)), Pow(10, n % LimbDigits))
    IN  IF n \div LimbDigits >= Len(a) THEN [q |-> <<>>, sticky |-> a # <<>>]
        ELSE [q |-> d.q,
              sticky |-> d.r # 0 \/ \E i \in 1..limbs : a[i] # 0]

\* the number written by the digits s[i..j-1] in the base 10 or 16
RECURSIVE Natural(_, _, _, _)
Natural(s, i, j, base) ==
    IF j <= i THEN <<>>
    ELSE IF j = i + 1 THEN Big(HexVal(s[i]))
    ELSE LET mid == (i + j) \div 2
             hi  == Natural(s, i, mid, base)
         IN  Add(IF base = 10 THEN TimesPow10(hi, j - mid)
                 ELSE TimesPow2(hi, 4 * (j - mid)),
                 Natural(s, mid, j, base))

\* std::stoi(s): white space, an optional sign, decimal digits; the rest of
\* the text is not looked at.  ok is FALSE where stoi throws: no digits, or
\* a value that is no int.
stoi(s) ==
    LET i    == SkipSpace(s, 1)
        neg  == i <= Len(s) /\ s[i] = "-"
        j    == IF i <= Len(s) /\ s[i] \in {"+", "-"} THEN i + 1 ELSE i
        k    == DigitsEnd(s, j)
        mag  == Natural(s, j, k, 10)
    IN  IF k = j THEN [ok |-> FALSE, val |-> 0]
        ELSE IF Cmp(mag, Big(INT_MAX)) <= 0
        THEN [ok |-> TRUE, val |-> IF neg THEN 0 - IntOf(mag) ELSE IntOf(mag)]
        ELSE IF neg /\ mag = MulAdd(Big(INT_MAX), 1, 1)
        THEN [ok |-> TRUE, val |-> 0 - INT_MAX - 1]
        ELSE [ok |-> FALSE, val |-> 0]

T_TERM == <<"T", "E", "R", "M">>
T_INT == <<"I", "N", "T">>
T_HUP == <<"H", "U", "P">>
T_KILL == <<"K", "I", "L", "L">>
T_USR1 == <<"U", "S", "R", "1">>
T_USR2 == <<"U", "S", "R", "2">>
T_SIG == <<"S", "I", "G">>

parse_signal(signal_str) ==
    IF signal_str = <<>> THEN SIGTERM
    ELSE LET r == stoi(signal_str) IN
         IF r.ok THEN r.val
         ELSE IF signal_str \in {T_TERM, T_SIG \o T_TERM} THEN SIGTERM
         ELSE IF signal_str \in {T_INT, T_SIG \o T_INT} THEN SIGINT
         ELSE IF signal_str \in {T_HUP, T_SIG \o T_HUP} THEN SIGHUP
         ELSE IF signal_str \in {T_KILL, T_SIG \o T_KILL} THEN SIGKILL
         ELSE IF signal_str \in {T_USR1, T_SIG \o T_USR1} THEN SIGUSR1
         ELSE IF signal_str \in {T_USR2, T_SIG \o T_USR2} THEN SIGUSR2
         ELSE SIGTERM

\* ------------------------------------------------------------- std::stod
\* A finite double is kept as sign, significand m (a natural number below
\* 2^MantissaBits, or equal to it) and exponent ex: its value is m * 2^ex.
\* The other doubles are the infinities and NaN.
MantissaBits == 53
MaxExp == 1024
MinExp == -1021

\* the character of s at index i, "" past the end (the terminating NUL)
CharAt(s, i) == IF i >= 1 /\ i <= Len(s) THEN s[i] ELSE ""

\* s holds the word w (lower case) at index i, in either case
MatchesAt(s, i, w) ==
    /\ i + Len(w) - 1 <= Len(s)
    /\ \A k \in 1..Len(w) : ToLower(s[i + k - 1]) = w[k]

\* index just past the run of hexadecimal digits of s that starts at i
HexEnd(s, i) ==
    Least({k \in 1..Len(s) : ~IsHexDigit(s[k])}, i, Len(s) + 1)

\* index just past the run of letters, digits and underscores from i
NCharEnd(s, i) ==
    Least({k \in 1..Len(s) : ~(\/ IsDigit(s[k]) \/ IsUpper(s[k])
                                \/ IsLower(s[k]) \/ s[k] = "_")},
          i, Len(s) + 1)

\* the digits s[i..j-1] are all zeros (or there are none)
AllZero(s, i, j) == \A k \in i..(j - 1) : s[k] = "0"

\* number of leading zeros among the digits s[i..j-1]
LeadingZeros(s, i, j) ==
    Least({k \in 1..Len(s) : s[k] # "0"}, i, j) - i

NoConversion == [ok |-> FALSE, why |-> "invalid_argument"]
OutOfRange == [ok |-> FALSE, why |-> "out_of_range"]
Finite(neg, m, ex, pos) ==
    [ok |-> TRUE, kind |-> "num", neg |-> neg, m |-> m, ex |-> ex, pos |-> pos]
Special(kind, neg, pos) ==
    [ok |-> TRUE, kind |-> kind, neg |-> neg, m |-> <<>>, ex |-> 0, pos |-> pos]

\* m, or the next number: round to nearest, ties to even, where half is the
\* first bit that was cut off and more says that a later one was set
RoundHalfEven(m, half, more) ==
    IF half /\ (more \/ (m # <<>> /\ m[1] % 2 = 1)) THEN MulAdd(m, 1, 1)
    ELSE m

\* a, cut or extended to MantissaBits + 1 bits: the value a * 2^c0, with a
\* remainder if st, is then q * 2^c, with a remainder if sticky
Normalise(a, st, c0) ==
    LET b == BitLen(a)
        d == DivPow2(a, b - MantissaBits - 1)
    IN  [q |-> IF b > MantissaBits + 1 THEN d.q
               ELSE TimesPow2(a, MantissaBits + 1 - b),
         sticky |-> st \/ d.sticky,
         c |-> c0 + b - MantissaBits - 1]

\* The double for the value q * 2^c, q of MantissaBits + 1 bits, with a
\* remainder below 2^c if sticky: strtod's round_and_return.  The value is
\* m * 2^(c + 1) with the bit half cut off.  A value of binary exponent
\* E < MinExp - 1 is subnormal: shift more bits are cut off, and the
\* conversion fails with ERANGE where that loses a set bit (the bit half
\* is not counted among them) unless rounding to MantissaBits bits reaches the
\* least normal double.  It also fails for a value that rounds to 2^MaxExp.
round_and_return(neg, q, sticky, c, pos) ==
    LET d     == DivRem(q, 2)
        m     == d.q
        half  == d.r = 1
        E     == c + MantissaBits
        shift == MinExp - 1 - E
        up    == RoundHalfEven(m, half, sticky)
        carry == BitLen(up) > MantissaBits
        low   == DivPow2(m, shift - 1)
        d2    == DivRem(low.q, 2)
        half2 == d2.r = 1
        more2 == sticky \/ low.sticky
    IN  IF shift > MantissaBits THEN OutOfRange
        ELSE IF shift > 0
        THEN (IF ~(shift = 1 /\ carry) /\ (half2 \/ more2) THEN OutOfRange
              ELSE Finite(neg, RoundHalfEven(d2.q, half2, more2),
                          MinExp - MantissaBits, pos))
        ELSE IF E + (IF carry THEN 1 ELSE 0) >= MaxExp THEN OutOfRange
        ELSE Finite(neg, up, c + 1, pos)

\* decimal exponents of the largest and of the least positive double
MaxDecExp == 308
MinDecExp == -323

\* the decimal number with whole digits I, fraction digits F and exponent e:
\* the number n written by the digits, times 10^e10.  mag is the decimal
\* exponent of its first digit: a value of 10^(MaxDecExp + 1) or more is
\* above every double and one below 10^MinDecExp is below half the least
\* one.  Between the two the value is brought to the form q * 2^c: a
\* negative e10 divides n, after s more binary places were given to it so
\* that the quotient has MantissaBits + 1 bits or more (n has more than
\* ChunkBits bits for each of its digits but the first, and the divisor at
\* most ChunkBits + 1 for each of its own).
Decimal(neg, I, F, e, pos) ==
    LET all  == I \o F
        lz   == LeadingZeros(all, 1, Len(all) + 1)
        mag  == Len(I) - lz + e
        n    == Natural(all, 1, Len(all) + 1, 10)
        e10  == e - Len(F)
        est  == MantissaBits - ChunkBits * (Len(n) - 1)
                + (ChunkBits + 1) * ((0 - e10) \div LimbDigits + 1)
        s    == IF est > 0 THEN est ELSE 0
        quot == DivPow10(TimesPow2(n, s), 0 - e10)
        v    == IF e10 >= 0 THEN Normalise(TimesPow10(n, e10), FALSE, 0)
                ELSE Normalise(quot.q, quot.sticky, 0 - s)
    IN  IF AllZero(all, 1, Len(all) + 1) THEN Finite(neg, <<>>, 0, pos)
        ELSE IF mag > MaxDecExp + 1 \/ mag < MinDecExp THEN OutOfRange
        ELSE round_and_return(neg, v.q, v.sticky, v.c, pos)

\* the hexadecimal number with whole digits I, fraction digits F and binary
\* exponent e: the number n written by the digits, times 2^e2.  E is the
\* binary exponent of its first bit.
Hexadecimal(neg, I, F, e, pos) ==
    LET all == I \o F
        n   == Natural(all, 1, Len(all) + 1, 16)
        e2  == e - 4 * Len(F)
        E   == BitLen(n) - 1 + e2
        v   == Normalise(n, FALSE, e2)
    IN  IF n = <<>> THEN Finite(neg, <<>>, 0, pos)
        ELSE IF E > MaxExp \/ E < MinExp - 2 - MantissaBits THEN OutOfRange
        ELSE round_and_return(neg, v.q, v.sticky, v.c, pos)

\* an exponent part at index i of s, introduced by the letter mark: the
\* exponent's value and the index just past it; no exponent unless at least
\* one digit follows the letter and its sign.  The digits of s move the
\* value by fewer than 4 * Len(s) binary places, so that with an exponent
\* of lim or more the value is zero or outside the doubles whatever the
\* digits are: such an exponent is read as lim (strtod stops reading at
\* such a limit, too).
ExponentAt(s, i, mark) ==
    LET j   == IF CharAt(s, i + 1) \in {"+", "-"} THEN i + 2 ELSE i + 1
        k   == DigitsEnd(s, j)
        mag == Natural(s, j, k, 10)
        lim == MaxExp + MantissaBits + 4 * Len(s)
        a   == IF Cmp(mag, Big(lim)) = 1 THEN lim ELSE IntOf(mag)
    IN  IF ToLower(CharAt(s, i)) = mark /\ k > j
        THEN [val |-> IF CharAt(s, i + 1) = "-" THEN 0 - a ELSE a, end |-> k]
        ELSE [val |-> 0, end |-> i]

\* std::stod(s, &pos): white space, an optional sign, then "infinity" or
\* "inf", "nan" with an optional (n-char-sequence), a hexadecimal or a
\* decimal floating constant; pos is the number of characters converted.
\* ok is FALSE where stod throws.
stod(s) ==
    LET i   == SkipSpace(s, 1)
        neg == CharAt(s, i) = "-"
        j   == IF CharAt(s, i) \in {"+", "-"} THEN i + 1 ELSE i
    IN  IF MatchesAt(s, j, <<"i", "n", "f", "i", "n", "i", "t", "y">>)
        THEN Special("inf", neg, j + 7)
        ELSE IF MatchesAt(s, j, <<"i", "n", "f">>)
        THEN Special("inf", neg, j + 2)
        ELSE IF MatchesAt(s, j, <<"n", "a", "n">>)
        THEN LET c == NCharEnd(s, j + 4) IN
             IF CharAt(s, j + 3) = "(" /\ CharAt(s, c) = ")"
             THEN Special("nan", neg, c)
             ELSE Special("nan", neg, j + 2)
        ELSE IF /\ CharAt(s, j) = "0" /\ ToLower(CharAt(s, j + 1)) = "x"
                /\ \/ IsHexDigit(CharAt(s, j + 2))
                   \/ CharAt(s, j + 2) = "." /\ IsHexDigit(CharAt(s, j + 3))
        THEN LET k1  == HexEnd(s, j + 2)
                 dot == CharAt(s, k1) = "."
                 k2  == IF dot THEN HexEnd(s, k1 + 1) ELSE k1
                 x   == ExponentAt(s, k2, "p")
             IN  Hexadecimal(neg, SubSeq(s, j + 2, k1 - 1),
                             IF dot THEN SubSeq(s, k1 + 1, k2 - 1) ELSE <<>>,
                             x.val, x.end - 1)
        ELSE LET k1  == DigitsEnd(s, j)
                 dot == CharAt(s, k1) = "."
                 k2  == IF dot THEN DigitsEnd(s, k1 + 1) ELSE k1
                 x   == ExponentAt(s, k2, "e")
             IN  IF (k1 - j) + (IF dot THEN k2 - k1 - 1 ELSE 0) = 0
                 THEN NoConversion
                 ELSE Decimal(neg, SubSeq(s, j, k1 - 1),
                              IF dot THEN SubSeq(s, k1 + 1, k2 - 1) ELSE <<>>,
                              x.val, x.end - 1)

\* ---------------------------------------------------------- parse_duration
SecondsPerMinute == 60
SecondsPerHour == 3600
SecondsPerDay == 86400

\* the factor of the switch on the unit character (lines 58-62)
UnitFactor(unit) ==
    IF unit = "m" THEN SecondsPerMinute
    ELSE IF unit = "h" THEN SecondsPerHour
    ELSE IF unit = "d" THEN SecondsPerDay
    ELSE 1

\* value *= mult: the product, rounded to MantissaBits bits where it has
\* more, and infinite from 2^MaxExp on
Times(v, mult) ==
    LET p     == MulAdd(v.m, mult, 0)
        n     == Normalise(p, FALSE, v.ex)
        d     == DivRem(n.q, 2)
        up    == RoundHalfEven(d.q, d.r = 1, n.sticky)
        carry == BitLen(up) > MantissaBits
    IN  IF v.kind # "num" \/ mult = 1 \/ v.m = <<>> THEN v
        ELSE IF BitLen(p) <= MantissaBits THEN [v EXCEPT !.m = p]
        ELSE IF n.c + MantissaBits + (IF carry THEN 1 ELSE 0) >= MaxExp
        THEN Special("inf", v.neg, v.pos)
        ELSE [v EXCEPT !.m = up, !.ex = n.c + 1]

\* the whole part q of a finite value below 2^31; sticky says that the value
\* has a fraction
Whole(v) ==
    IF v.ex >= 0 THEN [q |-> TimesPow2(v.m, v.ex), sticky |-> FALSE]
    ELSE DivPow2(v.m, 0 - v.ex)

\* value < 0 (false for -0.0 and for NaN)
IsNegative(v) ==
    v.kind # "nan" /\ v.neg /\ (v.kind = "inf" \/ v.m # <<>>)

\* value > INT_MAX (false for NaN)
ExceedsIntMax(v) ==
    /\ v.kind # "nan"
    /\ ~v.neg
    /\ \/ v.kind = "inf"
       \/ /\ v.m # <<>>
          /\ \/ BitLen(v.m) + v.ex > BitLen(Big(INT_MAX))
             \/ Cmp(Whole(v).q, Big(INT_MAX)) = 1
             \/ Whole(v).q = Big(INT_MAX) /\ Whole(v).sticky

\* static_cast<int>(value) for a value that passed line 67: the conversion
\* truncates.  NaN gets past line 67 and its conversion is undefined:
\* INT_MIN or 0 on the usual targets.
ToInt(v) ==
    IF v.kind = "nan" THEN {0 - INT_MAX - 1, 0} ELSE {IntOf(Whole(v).q)}

\* parse_duration(duration_str) (lines 50-70) with old the value of
\* duration_seconds at the call: the ways it can end, each with the value
\* duration_seconds has afterwards.  "throw" is the exception of std::stod.
\* r is what std::stod returns and value the double after the switch.
parse_duration(duration_str, old) ==
    IF duration_str = <<>> THEN {[result |-> "false", duration |-> old]}
    ELSE UNION {
        IF ~r.ok THEN {[result |-> "throw", duration |-> old]}
        ELSE LET unit == CharAt(duration_str, r.pos + 1)
                 mult == IF r.pos < Len(duration_str) THEN UnitFactor(unit)
                         ELSE 1
             IN  IF r.pos < Len(duration_str) /\ unit \notin {"s", "m", "h", "d"}
                 THEN {[result |-> "false", duration |-> old]}
                 ELSE UNION {
                     IF IsNegative(value) \/ ExceedsIntMax(value)
                     THEN {[result |-> "false", duration |-> old]}
                     ELSE {[result |-> "true", duration |-> d] : d \in ToInt(value)}
                     : value \in {Times(r, mult)} }
        : r \in {stod(duration_str)} }

\* ---------------------------------------------------------------- parse_args
O_k == <<"-", "k">>
O_kill_after == <<"-", "-", "k", "i", "l", "l", "-", "a", "f", "t", "e", "r">>
O_s == <<"-", "s">>
O_signal == <<"-", "-", "s", "i", "g", "n", "a", "l">>
O_p == <<"-", "p">>
O_preserve_status == <<"-", "-", "p", "r", "e", "s", "e", "r", "v", "e", "-",
                       "s", "t", "a", "t", "u", "s">>
O_v == <<"-", "v">>
O_verbose == <<"-", "-", "v", "e", "r", "b", "o", "s", "e">>
O_h == <<"-", "h">>
O_help == <<"-", "-", "h", "e", "l", "p">>

\* the fields of a Timeout just constructed (lines 40-41)
Constructed ==
    [duration_seconds |-> 0, kill_after_seconds |-> 0, signal_name |-> <<>>,
     preserve_status |-> FALSE, verbose |-> FALSE, command_args |-> <<>>]

\* parse_args ends in the given way, leaving the fields st
Ends(result, st) == {[result |-> result, fields |-> st]}

\* faulty variant: arguments that look like options are left out of the
\* command
parse_rest_DropsOptions(args, i, st) ==
    IF i > Len(args) THEN Ends("false", st)
    ELSE UNION {
        IF o.result # "true" THEN Ends(o.result, st)
        ELSE LET IsWord(a) == CharAt(a, 1) # "-"
                 st2 == [st EXCEPT !.duration_seconds = o.duration,
                                   !.command_args =
                                       st.command_args \o
                                       SelectSeq(SubSeq(args, i + 1, Len(args)),
                                                 IsWord)]
             IN  IF st2.command_args = <<>> THEN Ends("false", st2)
                 ELSE Ends("true", st2)
        : o \in parse_duration(args[i], st.duration_seconds) }

\* lines 127-149, with i the index of the DURATION argument
parse_rest(args, i, st) ==
    IF i > Len(args) THEN Ends("false", st)
    ELSE UNION {
        IF o.result # "true" THEN Ends(o.result, st)
        ELSE LET st2 == [st EXCEPT !.duration_seconds = o.duration,
                                   !.command_args =
                                       st.command_args \o
                                       SubSeq(args, i + 1, Len(args))]
             IN  IF st2.command_args = <<>> THEN Ends("false", st2)
                 ELSE Ends("true", st2)
        : o \in parse_duration(args[i], st.duration_seconds) }

\* the option loop (lines 93-125) from argv[i] on, then the rest
RECURSIVE parse_from(_, _, _)
parse_from(args, i, st) ==
    IF i <= Len(args) /\ CharAt(args[i], 1) = "-"
    THEN LET arg == args[i] IN
         IF arg \in {O_k, O_kill_after}
         THEN IF i + 1 > Len(args) THEN Ends("false", st)
              ELSE UNION {
                  IF o.result # "true" THEN Ends(o.result, st)
                  ELSE parse_from(args, i + 2,
                                  [st EXCEPT !.kill_after_seconds = o.duration,
                                             !.duration_seconds = 0])
                  : o \in parse_duration(args[i + 1], st.duration_seconds) }
         ELSE IF arg \in {O_s, O_signal}
         THEN IF i + 1 > Len(args) THEN Ends("false", st)
              ELSE parse_from(args, i + 2, [st EXCEPT !.signal_name = args[i + 1]])
         ELSE IF arg \in {O_p, O_preserve_status}
         THEN parse_from(args, i + 1, [st EXCEPT !.preserve_status = TRUE])
         ELSE IF arg \in {O_v, O_verbose}
         THEN parse_from(args, i + 1, [st EXCEPT !.verbose = TRUE])
         ELSE IF arg \in {O_h, O_help}
         THEN Ends("help", st)
         ELSE Ends("false", st)
    ELSE parse_rest(args, i, st)

\* parse_args(argc, argv) (lines 90-150) on a Timeout just constructed; args
\* is argv[1..argc-1].  "help" is the exit(0) of line 119.
parse_args(args) == parse_from(args, 1, Constructed)

\* the words of the commands: a program that runs, an argument, a file that
\* does not exist and a file that is not executable
W_prog == <<"p", "r", "o", "g">>
W_arg == <<"a", "r", "g">>
W_missing == <<"m", "i", "s", "s", "i", "n", "g">>
W_noexec == <<"n", "o", "e", "x", "e", "c">>

\* ------------------------------------------------------------- environment
\* what execvp does with command_args[0] in the forked child
ExecResult(file) ==
    IF file = W_missing THEN "ENOENT"
    ELSE IF file = W_noexec THEN "EACCES"
    ELSE "ok"

Commands == {<<W_prog>>, <<W_prog, W_arg>>, <<W_missing>>, <<W_noexec>>}
SignalTexts == {<<>>, T_KILL, T_INT, <<"0">>, <<"3">>}
ForkResults == {NoPid, 4242}

\* the signals whose default action leaves the process alive: the signal is
\* ignored, or it stops or continues the process
NotFatal == {SIGCHLD, SIGCONT, SIGSTOP, SIGTSTP, SIGTTIN, SIGTTOU, SIGURG,
             SIGWINCH}

\* the signals that end a process unless it catches or ignores them
CatchableFatal == (1..SIGRTMAX) \ ({SIGKILL} \cup NotFatal)
Phases == {"main", "grace"}

\* the statuses with which the child can end of its own accord: the exit
\* code of the command, or exit(127) after a failed execvp
ExitChoices(args) ==
    IF ExecResult(args[1]) = "ok" THEN 0..MaxExitCode ELSE {ExecFailCode}

\* waitpid(child_pid, &status, WNOHANG)
waitpid(pid, st) ==
    IF st = "zombie" THEN pid
    ELSE IF st = "running" THEN 0
    ELSE -1

\* kill(child_pid, sig): the fatal signal pending for the child afterwards.
\* Every signal whose default action ends the process is fatal, whatever
\* its number.  A signal whose disposition is "ignore" is discarded when
\* generated; signal 0 and numbers that are no signal generate nothing; a
\* signal that stops the child does not end it; SIGKILL is taken before any
\* other pending signal.
kill(sig) ==
    IF childState # "running" THEN pendingSig
    ELSE IF sig = SIGKILL THEN SIGKILL
    ELSE IF sig \in CatchableFatal /\ ~childIgnores /\ pendingSig # SIGKILL THEN sig
    ELSE pendingSig

\* faulty variant: the elapsed time is rounded up to whole seconds
ElapsedSeconds_RoundedUp(t) == (t * PollMs + MsPerSecond - 1) \div MsPerSecond

\* elapsed = duration_cast<seconds>(now - start_time)
ElapsedSeconds(t) == (t * PollMs) \div MsPerSecond

\* elapsed.count() >= timeout_seconds
TimedOut(t, timeout_seconds) == ElapsedSeconds(t) >= timeout_seconds

InMainWait == phase = "main" /\ pc \in {"wait_poll", "wait_check", "wait_sleep"}

\* -------------------------------------------------------------------- Init
Init ==
    /\ duration_seconds \in 0..MaxDuration
    /\ kill_after_seconds \in 0..MaxKillAfter
    /\ signal_name \in SignalTexts
    /\ preserve_status \in BOOLEAN
    /\ verbose \in BOOLEAN
    /\ command_args \in Commands
    /\ child_pid = NoPid
    /\ pc = "start"
    /\ phase = "main"
    /\ ticks = 0
    /\ ret = NoRet
    /\ childState = "none"
    /\ childStatus = -1
    /\ childIgnores \in BOOLEAN
    /\ (childIgnores => ExecResult(command_args[1]) = "ok")
    /\ pendingSig = 0
    /\ sigchldIgnored \in BOOLEAN
    /\ termSent = 0
    /\ killSent = 0
    /\ diag = 0
    /\ observed = "none"
    /\ exitedInTime = FALSE
    /\ waitFailed = FALSE
    /\ externalSig = 0
    /\ argv = <<>>
    /\ parsed = "true"
    /\ process_handle = "INVALID"
    /\ handle_closes = 0
    /\ stale_calls = 0

\* ------------------------------------------------------------ run(): steps
Return(code) == ret' = code /\ pc' = "done"

\* wait_for_process(timeout_seconds) begins: start_time = now()
BeginWait(ph) == pc' = "wait_poll" /\ phase' = ph /\ ticks' = 0 /\ ret' = ret

\* faulty variant: the result of fork() is not checked
start_process_Unchecked(r) ==
    IF command_args = <<>> THEN [ok |-> FALSE, pid |-> child_pid]
    ELSE [ok |-> TRUE, pid |-> r]

\* start_process() with r the value fork() returns
start_process(r) ==
    IF command_args = <<>> THEN [ok |-> FALSE, pid |-> child_pid]
    ELSE IF r = NoPid THEN [ok |-> FALSE, pid |-> r]
    ELSE [ok |-> TRUE, pid |-> r]

\* run(), lines 311-316: start the child, then enter the main wait
RunStart ==
    /\ pc = "start"
    /\ \E r \in ForkResults :
         LET s == start_process(r) IN
         /\ child_pid' = s.pid
         /\ IF s.ok
            THEN childState' = "running" /\ BeginWait("main")
            ELSE Return(FailCode) /\ UNCHANGED <<childState, phase, ticks>>
    /\ UNCHANGED <<config, childStatus, childIgnores, pendingSig,
                   env, counters, observed, waitFailed, exitedInTime>>

\* faulty variant: the preserve_status flag is read the wrong way round
TimeoutResult_Inverted(preserve) ==
    IF preserve THEN TimedOutCode ELSE CompletedCode

\* the value run() returns once the initial signal was sent and no KILL
TimeoutResult(preserve) == IF preserve THEN CompletedCode ELSE TimedOutCode

\* faulty variant: the result of the grace wait is not looked at
WaitTrue_GraceIgnored ==
    IF phase = "main" THEN Return(CompletedCode)
    ELSE pc' = "kill" /\ ret' = ret

\* faulty variant: the child's own status is returned from the main wait
WaitTrue_ChildStatus ==
    IF phase = "main" THEN Return(childStatus)
    ELSE Return(TimeoutResult(preserve_status))

\* faulty variant: the result of the main wait is ignored
WaitTrue_MainIgnored ==
    IF phase = "main" THEN pc' = "terminate" /\ ret' = ret
    ELSE Return(TimeoutResult(preserve_status))

\* wait_for_process returned true: run() returns (lines 316-318, 326-328)
WaitTrue ==
    IF phase = "main" THEN Return(CompletedCode)
    ELSE Return(TimeoutResult(preserve_status))

\* wait_for_process returned false: run() goes on (lines 322, 332)
WaitFalse ==
    /\ pc' = IF phase = "main" THEN "terminate" ELSE "kill"
    /\ ret' = ret

\* one waitpid poll of wait_for_process (lines 262, 268-276)
WaitPoll ==
    /\ pc = "wait_poll"
    /\ IF child_pid = NoPid
       THEN WaitFalse /\ UNCHANGED <<childState, observed>>
       ELSE LET result == waitpid(child_pid, childState) IN
            IF result = child_pid
            THEN childState' = "reaped" /\ observed' = phase /\ WaitTrue
            ELSE IF result = -1
            THEN WaitFalse /\ UNCHANGED <<childState, observed>>
            ELSE pc' = "wait_check" /\ ret' = ret
                 /\ UNCHANGED <<childState, observed>>
    /\ waitFailed' = (waitFailed \/ (child_pid # NoPid
                                     /\ waitpid(child_pid, childState) = -1))
    /\ UNCHANGED <<config, child_pid, phase, ticks, childStatus, childIgnores,
                   pendingSig, env, counters, exitedInTime>>

\* the timeout this call of wait_for_process was given (lines 316, 326)
CurrentTimeout ==
    IF phase = "main" THEN duration_seconds ELSE kill_after_seconds

\* the elapsed-time check of wait_for_process (lines 279-284)
WaitCheck ==
    /\ pc = "wait_check"
    /\ IF TimedOut(ticks, CurrentTimeout)
       THEN WaitFalse
       ELSE pc' = "wait_sleep" /\ ret' = ret
    /\ UNCHANGED <<config, child_pid, phase, ticks, childVars,
                   env, counters, observed, waitFailed, exitedInTime>>

\* sleep_for(milliseconds(100)) of wait_for_process (line 286): at least one
\* tick passes
WaitSleep ==
    /\ pc = "wait_sleep"
    /\ \E k \in 1..(1 + MaxOversleep) : ticks' = ticks + k
    /\ pc' = "wait_poll"
    /\ UNCHANGED <<config, child_pid, phase, ret, childVars,
                   env, counters, observed, waitFailed, exitedInTime>>

\* faulty variant: the signal is sent a second time to make sure
terminate_process_Resend ==
    IF child_pid # NoPid
    THEN LET signal == parse_signal(signal_name) IN
         /\ diag' = IF verbose THEN diag + 2 ELSE diag
         /\ pendingSig' = kill(signal)
         /\ termSent' = termSent + 2
    ELSE UNCHANGED <<diag, pendingSig, termSent>>

\* terminate_process() (lines 290-298)
terminate_process ==
    IF child_pid # NoPid
    THEN LET signal == parse_signal(signal_name) IN
         /\ diag' = IF verbose THEN diag + 1 ELSE diag
         /\ pendingSig' = kill(signal)
         /\ termSent' = termSent + 1
    ELSE UNCHANGED <<diag, pendingSig, termSent>>

\* run(), lines 322-326 and 340: send the initial signal, then either enter
\* the grace wait or return
Terminate ==
    /\ pc = "terminate"
    /\ terminate_process
    /\ IF kill_after_seconds > 0
       THEN BeginWait("grace")
       ELSE Return(TimeoutResult(preserve_status)) /\ UNCHANGED <<phase, ticks>>
    /\ UNCHANGED <<config, child_pid, childState, childStatus, childIgnores,
                   env, killSent, observed, waitFailed, exitedInTime>>

\* kill_process() (lines 300-307)
kill_process ==
    IF child_pid # NoPid
    THEN /\ diag' = IF verbose THEN diag + 1 ELSE diag
         /\ pendingSig' = kill(SIGKILL)
         /\ killSent' = killSent + 1
    ELSE UNCHANGED <<diag, pendingSig, killSent>>

\* faulty variant: the kill-after value is cleared once the kill is sent
Kill_ClearsKillAfter ==
    /\ pc = "kill"
    /\ kill_process
    /\ pc' = "kill_sleep"
    /\ kill_after_seconds' = 0
    /\ UNCHANGED <<duration_seconds, signal_name, preserve_status, verbose,
                   command_args, child_pid, phase, ticks, ret, childState,
                   childStatus, childIgnores, env, termSent,
                   observed, waitFailed, exitedInTime>>

\* run(), line 332
Kill ==
    /\ pc = "kill"
    /\ kill_process
    /\ pc' = "kill_sleep"
    /\ UNCHANGED <<config, child_pid, phase, ticks, ret, childState,
                   childStatus, childIgnores, env, termSent,
                   observed, waitFailed, exitedInTime>>

\* faulty variant: preserve_status is honoured after the KILL as well
KillSleep_Preserve ==
    /\ pc = "kill_sleep"
    /\ Return(IF preserve_status THEN CompletedCode ELSE KilledCode)
    /\ UNCHANGED <<config, child_pid, phase, ticks, childVars,
                   env, counters, observed, waitFailed, exitedInTime>>

\* run(), lines 335-337: sleep 100 ms, return 137
KillSleep ==
    /\ pc = "kill_sleep"
    /\ Return(KilledCode)
    /\ UNCHANGED <<config, child_pid, phase, ticks, childVars,
                   env, counters, observed, waitFailed, exitedInTime>>

\* --------------------------------------------------------------- the child
\* the child ends with the given status; with SIGCHLD ignored by the
\* supervisor the kernel reaps it at once and leaves no zombie
ChildEnds(status, ext) ==
    /\ childState = "running"
    /\ childState' = IF sigchldIgnored THEN "reaped" ELSE "zombie"
    /\ childStatus' = status
    /\ pendingSig' = 0
    /\ exitedInTime' = (InMainWait /\ ~TimedOut(ticks, duration_seconds))
    /\ externalSig' = ext
    /\ UNCHANGED <<config, child_pid, pc, phase, ticks, ret, childIgnores,
                   sigchldIgnored, inputs, handle, counters, observed,
                   waitFailed>>

\* the command exits (exit code), or the failed execvp is followed by exit(127)
ChildExit ==
    /\ childState = "running"
    /\ \E c \in ExitChoices(command_args) : ChildEnds(c, 0)

\* the child is terminated by the pending signal: status 128 + signal
ChildDie == pendingSig # 0 /\ ChildEnds(128 + pendingSig, 0)

\* the signals something other than the supervisor sends to the child
ExternalSignals == {SIGINT, SIGKILL}

\* the child is terminated by a signal the supervisor did not send (a
\* catchable one only if the child does not ignore it): status 128 + signal
ChildKilled ==
    \E s \in ExternalSignals :
        /\ s = SIGKILL \/ ~childIgnores
        /\ ChildEnds(128 + s, s)

\* --------------------------------------------------------------- the clock
\* the clock is followed up to MaxOversleep ticks past the deadline (a timeout
\* below 0, which parse_duration can store for "nan", has passed at once)
TickCap ==
    IF CurrentTimeout <= 0 THEN MaxOversleep
    ELSE (CurrentTimeout * MsPerSecond) \div PollMs + MaxOversleep

\* the steady clock passes a tick boundary between two statements of the
\* polling loop
Tick ==
    /\ pc \in {"wait_poll", "wait_check"}
    /\ ticks < TickCap
    /\ ticks' = ticks + 1
    /\ UNCHANGED <<config, child_pid, pc, phase, ret, childVars,
                   env, counters, observed, waitFailed, exitedInTime>>

\* ------------------------------------------------------- Windows variant
\* The same run(), built with _WIN32: the child is named by process_handle,
\* the wait is one WaitForSingleObject call, and both terminate_process and
\* kill_process call TerminateProcess and then CloseHandle.
winFrame == <<config, child_pid, ticks, sigchldIgnored, externalSig, inputs,
              exitedInTime>>

\* a 32-bit value is kept as two 16-bit halves
Half == Pow(2, 16)

\* timeout_seconds * 1000 (line 205), an int multiplication whose result is
\* converted to the DWORD parameter: the halves of the DWORD, and whether
\* the int multiplication overflowed.  The overflow is undefined; the halves
\* are those of the two's complement product, which is what the imul of the
\* x86, x64 and ARM builds leaves.  hi is the upper half of the product in
\* the integers: the product fits an int where hi fits 16 bits with sign.
MillisProduct(timeout_seconds) ==
    LET lo == (timeout_seconds % Half) * MsPerSecond
        hi == (timeout_seconds \div Half) * MsPerSecond + lo \div Half
    IN  [hi |-> hi % Half, lo |-> lo % Half,
         overflow |-> hi >= Half \div 2 \/ hi < 0 - Half \div 2]

\* INFINITE, 0xFFFFFFFF
INFINITE == [hi |-> Half - 1, lo |-> Half - 1]

\* the largest number of seconds whose milliseconds fit an int, the largest
\* whose milliseconds fit a DWORD ((2 * INT_MAX + 1) \div 1000), their
\* successors, and INT_MAX
LargeDurations ==
    {INT_MAX \div MsPerSecond, INT_MAX \div MsPerSecond + 1,
     2 * (INT_MAX \div MsPerSecond) + 1, 2 * (INT_MAX \div MsPerSecond) + 2,
     INT_MAX}

WinInit ==
    /\ duration_seconds \in (0..MaxDuration) \cup LargeDurations
                            \cup ToInt(Special("nan", FALSE, 0))
    /\ kill_after_seconds \in 0..MaxKillAfter
    /\ signal_name \in SignalTexts
    /\ preserve_status \in BOOLEAN
    /\ verbose \in BOOLEAN
    /\ command_args \in Commands
    /\ child_pid = NoPid
    /\ pc = "start"
    /\ phase = "main"
    /\ ticks = 0
    /\ ret = NoRet
    /\ childState = "none"
    /\ childStatus = -1
    /\ childIgnores = FALSE
    /\ pendingSig = 0
    /\ sigchldIgnored = FALSE
    /\ termSent = 0
    /\ killSent = 0
    /\ diag = 0
    /\ observed = "none"
    /\ exitedInTime = FALSE
    /\ waitFailed = FALSE
    /\ externalSig = 0
    /\ argv = <<>>
    /\ parsed = "true"
    /\ process_handle = "INVALID"
    /\ handle_closes = 0
    /\ stale_calls = 0

\* the values CreateProcess can return for the command line: it fails for a
\* file that is missing or not executable, and can fail for any other
CreateProcessResults(args) ==
    IF ExecResult(args[1]) = "ok" THEN BOOLEAN ELSE {FALSE}

\* start_process() (lines 167-200) and run(), lines 311-316
WinStart ==
    /\ pc = "start"
    /\ IF command_args = <<>>
       THEN Return(FailCode) /\ UNCHANGED <<process_handle, childState, phase>>
       ELSE \E created \in CreateProcessResults(command_args) :
              IF created
              THEN /\ process_handle' = "open"
                   /\ childState' = "running"
                   /\ pc' = "win_wait" /\ phase' = "main" /\ ret' = ret
              ELSE Return(FailCode)
                   /\ UNCHANGED <<process_handle, childState, phase>>
    /\ UNCHANGED <<winFrame, childStatus, childIgnores, pendingSig, counters,
                   observed, waitFailed, handle_closes, stale_calls>>

\* the values WaitForSingleObject(process_handle, timeout) can return: for
\* an open handle WAIT_OBJECT_0 once the child has ended, WAIT_TIMEOUT while
\* it runs; a closed handle names nothing, or whatever object reuses it
WaitResults ==
    IF process_handle = "open"
    THEN (IF childState # "running" THEN {"WAIT_OBJECT_0"}
          ELSE LET m == MillisProduct(CurrentTimeout) IN
               IF [hi |-> m.hi, lo |-> m.lo] = INFINITE THEN {}
               ELSE {"WAIT_TIMEOUT"})
    ELSE {"WAIT_FAILED", "WAIT_OBJECT_0", "WAIT_TIMEOUT"}

\* stale_calls after n more calls were handed process_handle
StaleAfter(n) ==
    IF process_handle = "closed" THEN stale_calls + n ELSE stale_calls

\* wait_for_process (lines 202-219) and the branch of run() on its result:
\* WaitForSingleObject, and on WAIT_OBJECT_0 GetExitCodeProcess and
\* CloseHandle
WinWait ==
    /\ pc = "win_wait"
    /\ IF process_handle = "INVALID"
       THEN WaitFalse /\ UNCHANGED <<handle, childState, observed, waitFailed>>
       ELSE \E result \in WaitResults :
              IF result = "WAIT_OBJECT_0"
              THEN /\ childState' = IF process_handle = "open" THEN "reaped"
                                    ELSE childState
                   /\ observed' = phase
                   /\ process_handle' = "closed"
                   /\ handle_closes' = handle_closes + 1
                   /\ stale_calls' = StaleAfter(3)
                   /\ waitFailed' = waitFailed
                   /\ WaitTrue
              ELSE /\ waitFailed' = (waitFailed \/ result = "WAIT_FAILED")
                   /\ stale_calls' = StaleAfter(1)
                   /\ WaitFalse
                   /\ UNCHANGED <<process_handle, handle_closes, childState,
                                  observed>>
    /\ UNCHANGED <<winFrame, phase, childStatus, childIgnores, pendingSig,
                   counters>>

\* TerminateProcess(process_handle, 1): termination of a running child is
\* initiated through an open handle; a closed handle reaches nothing
TerminateProcess ==
    IF process_handle = "open" /\ childState = "running" THEN SIGKILL
    ELSE pendingSig

\* terminate_process() (lines 221-226) and run(), lines 322-326 and 340
WinTerminate ==
    /\ pc = "terminate"
    /\ IF process_handle # "INVALID"
       THEN /\ pendingSig' = TerminateProcess
            /\ process_handle' = "closed"
            /\ handle_closes' = handle_closes + 1
            /\ stale_calls' = StaleAfter(2)
            /\ termSent' = termSent + 1
       ELSE UNCHANGED <<pendingSig, handle, termSent>>
    /\ IF kill_after_seconds > 0
       THEN pc' = "win_wait" /\ phase' = "grace" /\ ret' = ret
       ELSE Return(TimeoutResult(preserve_status)) /\ phase' = phase
    /\ UNCHANGED <<winFrame, childState, childStatus, childIgnores, killSent,
                   diag, observed, waitFailed>>

\* kill_process() (lines 228-233) and run(), line 332
WinKill ==
    /\ pc = "kill"
    /\ IF process_handle # "INVALID"
       THEN /\ pendingSig' = TerminateProcess
            /\ process_handle' = "closed"
            /\ handle_closes' = handle_closes + 1
            /\ stale_calls' = StaleAfter(2)
            /\ killSent' = killSent + 1
       ELSE UNCHANGED <<pendingSig, handle, killSent>>
    /\ pc' = "kill_sleep"
    /\ UNCHANGED <<winFrame, phase, ret, childState, childStatus, childIgnores,
                   termSent, diag, observed, waitFailed>>

\* the child ends through TerminateProcess, with the exit code passed to it
WinChildTerminated == pendingSig # 0 /\ ChildEnds(TerminateExitCode, 0)

WinSupervisor == WinStart \/ WinWait \/ WinTerminate \/ WinKill \/ KillSleep

WinNext == WinSupervisor \/ WinChildTerminated \/ ChildExit

WinSpec == WinInit /\ [][WinNext]_vars

\* ------------------------------------------------------------ specification
Supervisor ==
    RunStart \/ WaitPoll \/ WaitCheck \/ WaitSleep \/ Terminate \/ Kill \/ KillSleep

Next == Supervisor \/ ChildExit \/ ChildDie \/ ChildKilled \/ Tick

Spec == Init /\ [][Next]_vars

\* the control thread of run() keeps running
FairSpec == Spec /\ WF_vars(Supervisor)

\* ------------------------------------------------------------------- main()
D_0 == <<"0">>
D_1 == <<"1">>
D_2 == <<"2">>
D_half == <<"0", ".", "5">>
D_1_5 == <<"1", ".", "5">>
D_1s == <<"1", "s">>
D_1x == <<"1", "x">>
D_1sx == <<"1", "s", "x">>
D_neg == <<"-", "1">>
D_neg_s == <<"-", "1", "s">>
D_bogus == <<"b", "o", "g", "u", "s">>
D_nan == <<"n", "a", "n">>
O_x == <<"-", "x">>

\* argument vectors (argv[1..argc-1]) that follow the usage
GoodArgvs ==
    {<<D_1, W_prog>>, <<D_2, W_prog, W_arg>>, <<D_0, W_prog>>,
     <<D_1s, W_missing>>, <<D_1, W_noexec>>, <<D_half, W_prog>>,
     <<D_1_5, W_prog>>, <<O_k, D_0, D_1, W_prog>>,
     <<D_1, W_prog, O_k, D_1, O_p, O_v>>, <<O_p, D_1, W_prog, O_s, T_KILL>>,
     <<D_2, W_prog, O_h>>, <<O_k, D_1, D_1, W_prog, O_k, D_0, W_arg>>,
     <<O_k, D_1, D_1, W_prog>>, <<O_kill_after, D_1s, D_2, W_prog>>,
     <<O_k, D_half, D_1, W_prog>>, <<O_k, D_1, O_k, D_0, D_1, W_prog>>,
     <<O_s, T_KILL, D_1, W_prog>>, <<O_signal, T_INT, O_p, D_1, W_prog>>,
     <<O_v, O_preserve_status, O_k, D_1, D_1, W_prog>>,
     <<O_verbose, D_1, W_prog, O_x>>}

\* bad duration syntax, in the main duration or after -k
BadDurationArgvs ==
    {<<D_bogus, W_prog>>, <<D_1x, W_prog>>, <<D_1sx, W_prog>>,
     <<D_nan, W_prog>>, <<O_k, D_bogus, D_1, W_prog>>,
     <<O_k, D_1x, D_1, W_prog>>, <<O_k, D_1sx, D_1, W_prog>>,
     <<O_k, D_neg, D_1, W_prog>>, <<O_v, <<>>, W_prog>>}

\* no duration, no command, or an option without its value
MissingArgvs ==
    {<<>>, <<D_1>>, <<W_prog>>, <<W_prog, W_arg>>, <<O_p, D_2>>,
     <<O_k>>, <<O_k, D_1>>, <<O_k, D_1, D_1>>, <<O_s>>, <<O_signal, T_KILL>>}

\* an option that parse_args does not know
UnknownOptionArgvs ==
    {<<O_x, D_1, W_prog>>, <<O_v, O_x, D_1, W_prog>>,
     <<D_neg_s, W_prog>>, <<<<"-">>, D_1, W_prog>>}

HelpArgvs == {<<O_h>>, <<O_help, D_1, W_prog>>, <<O_v, O_h>>}

Argvs ==
    GoodArgvs \cup BadDurationArgvs \cup MissingArgvs \cup UnknownOptionArgvs
    \cup HelpArgvs

\* the program starts: Timeout timeout (line 345, the constructor at 40-48)
MainInit ==
    /\ argv \in Argvs
    /\ parsed = "none"
    /\ duration_seconds = Constructed.duration_seconds
    /\ kill_after_seconds = Constructed.kill_after_seconds
    /\ signal_name = Constructed.signal_name
    /\ preserve_status = Constructed.preserve_status
    /\ verbose = Constructed.verbose
    /\ command_args = Constructed.command_args
    /\ child_pid = NoPid
    /\ pc = "main"
    /\ phase = "main"
    /\ ticks = 0
    /\ ret = NoRet
    /\ childState = "none"
    /\ childStatus = -1
    /\ childIgnores \in BOOLEAN
    /\ (childIgnores =>
            \A o \in parse_args(argv) :
                /\ o.result = "true"
                /\ ExecResult(o.fields.command_args[1]) = "ok")
    /\ pendingSig = 0
    /\ sigchldIgnored \in BOOLEAN
    /\ termSent = 0
    /\ killSent = 0
    /\ diag = 0
    /\ observed = "none"
    /\ exitedInTime = FALSE
    /\ waitFailed = FALSE
    /\ externalSig = 0
    /\ process_handle = "INVALID"
    /\ handle_closes = 0
    /\ stale_calls = 0

\* main() (lines 344-353) up to the call of run(): parse_args fails and main
\* prints the usage and returns 125; or parse_args exits 0 for --help; or the
\* exception of std::stod leaves main, nothing catches it and the program
\* is aborted; or parse_args succeeds and run() starts.
Main ==
    /\ pc = "main"
    /\ \E o \in parse_args(argv) :
        /\ parsed' = o.result
        /\ duration_seconds' = o.fields.duration_seconds
        /\ kill_after_seconds' = o.fields.kill_after_seconds
        /\ signal_name' = o.fields.signal_name
        /\ preserve_status' = o.fields.preserve_status
        /\ verbose' = o.fields.verbose
        /\ command_args' = o.fields.command_args
        /\ pc' = IF o.result = "true" THEN "start"
                 ELSE IF o.result = "throw" THEN "aborted"
                 ELSE "exit"
        /\ ret' = IF o.result = "false" THEN FailCode
                  ELSE IF o.result = "help" THEN CompletedCode
                  ELSE ret
    /\ UNCHANGED <<child_pid, phase, ticks, childVars, counters, observed,
                   exitedInTime, waitFailed, sigchldIgnored, externalSig, argv,
                   handle>>

MainNext == Main \/ Next

MainSpec == MainInit /\ [][MainNext]_vars

\* --------------------------------------------------- parse_duration alone
\* the texts before the unit
NumberTexts ==
    {<<>>, D_0, D_1, D_2, <<"3">>, <<"5">>, D_half, <<"1", ".", "5">>,
     <<"4", ".", "1">>, <<"1", "e", "1">>, <<".", "5">>, <<"5", ".">>,
     <<" ", "1">>, <<"+", "1">>, D_neg, <<"-", "0">>, <<"-">>, <<".">>,
     D_bogus, D_nan, <<"i", "n", "f">>, <<"0", "x", "1", "0">>,
     <<"2", "4", "8", "5", "5">>, <<"2", "4", "8", "5", "6">>,
     <<"2", "1", "4", "7", "4", "8", "3", "6", "4", "7">>,
     <<"2", "1", "4", "7", "4", "8", "3", "6", "4", "8">>,
     <<VerticalTab, "1">>,
     <<"2", "1", "4", "7", "4", "8", "3", "6", "4", "7", ".",
       "0", "0", "0", "0", "0", "0", "1">>,
     <<"2", "1", "4", "7", "4", "8", "3", "6", "4", "6", ".",
       "9", "9", "9", "9", "9", "9", "9">>,
     <<"1", "e", "-", "3", "0", "8">>,
     <<"0", "x", "1", "p", "1", "0", "2", "4">>}

\* the texts from the unit on
TailTexts ==
    {<<>>, <<"s">>, <<"m">>, <<"h">>, <<"d">>, <<"x">>, <<"S">>, <<" ">>,
     <<"s", "x">>, <<"m", "m">>, <<"s", " ">>, <<"m", "s">>}

DurationTexts == {n \o t : n \in NumberTexts, t \in TailTexts}

\* a Timeout just constructed, about to parse one duration text
DurInit ==
    /\ \E text \in DurationTexts : argv = <<text>>
    /\ parsed = "none"
    /\ duration_seconds = Constructed.duration_seconds
    /\ kill_after_seconds = Constructed.kill_after_seconds
    /\ signal_name = Constructed.signal_name
    /\ preserve_status = Constructed.preserve_status
    /\ verbose = Constructed.verbose
    /\ command_args = Constructed.command_args
    /\ child_pid = NoPid
    /\ pc = "parse_duration"
    /\ phase = "main"
    /\ ticks = 0
    /\ ret = NoRet
    /\ childState = "none"
    /\ childStatus = -1
    /\ childIgnores = FALSE
    /\ pendingSig = 0
    /\ sigchldIgnored = FALSE
    /\ termSent = 0
    /\ killSent = 0
    /\ diag = 0
    /\ observed = "none"
    /\ exitedInTime = FALSE
    /\ waitFailed = FALSE
    /\ externalSig = 0
    /\ process_handle = "INVALID"
    /\ handle_closes = 0
    /\ stale_calls = 0

\* one call parse_duration(argv[1])
ParseDuration ==
    /\ pc = "parse_duration"
    /\ \E o \in parse_duration(argv[1], duration_seconds) :
        /\ parsed' = o.result
        /\ duration_seconds' = o.duration
    /\ pc' = "parsed"
    /\ UNCHANGED <<kill_after_seconds, signal_name, preserve_status, verbose,
                   command_args, child_pid, phase, ticks, ret, childVars,
                   counters, observed, exitedInTime, waitFailed, sigchldIgnored,
                   externalSig, argv, handle>>

DurNext == ParseDuration

DurSpec == DurInit /\ [][DurNext]_vars

\* ----------------------------------------------------- parse_signal alone
\* what comes before the name or number
SignalPrefixes ==
    {<<>>, T_SIG, <<"s", "i", "g">>, <<" ">>, <<VerticalTab>>, <<"-">>,
     <<"+">>}

\* names, numbers and other texts
SignalBodies ==
    {<<>>, T_TERM, T_INT, T_HUP, T_KILL, T_USR1, T_USR2,
     <<"t", "e", "r", "m">>, <<"k", "i", "l", "l">>, <<"Q", "U", "I", "T">>,
     <<"0">>, <<"2">>, <<"9">>, <<"1", "5">>, <<"6", "4">>,
     <<"9", "a", "b", "c">>, <<"1", "e", "1">>, <<"a", "b", "c">>}

SignalStrings == {p \o b : p \in SignalPrefixes, b \in SignalBodies}

\* a Timeout just constructed, about to resolve one signal text; parsed will
\* hold the signal number that parse_signal returns
SigInit ==
    /\ \E text \in SignalStrings : argv = <<text>>
    /\ parsed = 0
    /\ duration_seconds = Constructed.duration_seconds
    /\ kill_after_seconds = Constructed.kill_after_seconds
    /\ signal_name = Constructed.signal_name
    /\ preserve_status = Constructed.preserve_status
    /\ verbose = Constructed.verbose
    /\ command_args = Constructed.command_args
    /\ child_pid = NoPid
    /\ pc = "parse_signal"
    /\ phase = "main"
    /\ ticks = 0
    /\ ret = NoRet
    /\ childState = "none"
    /\ childStatus = -1
    /\ childIgnores = FALSE
    /\ pendingSig = 0
    /\ sigchldIgnored = FALSE
    /\ termSent = 0
    /\ killSent = 0
    /\ diag = 0
    /\ observed = "none"
    /\ exitedInTime = FALSE
    /\ waitFailed = FALSE
    /\ externalSig = 0
    /\ process_handle = "INVALID"
    /\ handle_closes = 0
    /\ stale_calls = 0

\* one call parse_signal(argv[1])
ParseSignal ==
    /\ pc = "parse_signal"
    /\ parsed' = parse_signal(argv[1])
    /\ pc' = "resolved"
    /\ UNCHANGED <<config, child_pid, phase, ticks, ret, childVars,
                   counters, observed, exitedInTime, waitFailed, sigchldIgnored,
                   externalSig, argv, handle>>

SigNext == ParseSignal

SigSpec == SigInit /\ [][SigNext]_vars

TypeOK ==
    /\ pc \in {"parse_signal", "resolved", "start", "wait_poll", "wait_check", "wait_sleep", "terminate",
               "kill", "kill_sleep", "done", "win_wait", "main", "exit",
               "aborted", "parse_duration", "parsed"}
    /\ phase \in Phases
    /\ ticks \in 0..((MaxDuration + MaxKillAfter + 1) * MsPerSecond) \div PollMs
    /\ ret \in {NoRet, CompletedCode, TimedOutCode, FailCode, KilledCode}
    /\ childState \in {"none", "running", "zombie", "reaped"}
    /\ termSent \in 0..1 /\ killSent \in 0..1 /\ diag \in 0..2
    /\ observed \in {"none"} \cup Phases

\* ------------------------------------------------------------------ claims
Started == childState # "none"
ChildEnded == childState \in {"zombie", "reaped"}
Returned == pc = "done"

\* the child ignores every catchable signal and has not exited on its own
\* (it is alive, or a signal ended it)
Stubborn ==
    Started /\ childIgnores /\ childStatus \notin 0..ExecFailCode /\ externalSig = 0

\* C1: a child that exits with code C before the deadline elapses makes
\* run() return exactly C, for every duration and both preserve_status.
C1_PassThrough == (Returned /\ exitedInTime) => ret = childStatus

\* C2: without kill-after, once the deadline elapsed and the initial signal
\* was sent, run() has returned only if the child is no longer running.
C2_BlocksUntilExit ==
    (Returned /\ termSent = 1 /\ kill_after_seconds = 0) => ChildEnded

\* C3: with duration 0, run() never signals the child, and returns only
\* after the child ended, with the child's own exit status.
C3_NoTimeout ==
    duration_seconds = 0 =>
        /\ termSent = 0 /\ killSent = 0
        /\ (Returned /\ Started) => (ChildEnded /\ ret = childStatus)

\* C4: when the child's exit with status C is collected by the grace wait
\* after the initial signal, no KILL was sent and preserve_status is set,
\* run() returns C.
C4_PreserveStatus ==
    (Returned /\ preserve_status /\ termSent = 1 /\ killSent = 0
        /\ observed = "grace") => ret = childStatus

\* C5: when the initial signal was sent, no KILL was sent and
\* preserve_status is not set, run() returns 124 whatever the child's status.
C5_TimedOutCode ==
    (Returned /\ termSent = 1 /\ killSent = 0 /\ ~preserve_status)
        => ret = TimedOutCode

C5_Witness ==
    /\ Returned /\ termSent = 1 /\ killSent = 0 /\ ~preserve_status
    /\ observed = "grace" /\ childStatus \in 1..MaxExitCode
    /\ ret = TimedOutCode

\* C6: whenever kill_process has sent the KILL, run() returns 137, for both
\* values of preserve_status.
C6_EscalationOverrides == (Returned /\ killSent > 0) => ret = KilledCode

C6_Witness ==
    Returned /\ killSent = 1 /\ termSent = 1 /\ preserve_status /\ ret = KilledCode

\* C7: with duration > 0 and kill-after > 0, run() eventually returns
\* whatever the child does, and for a child that ignores every catchable
\* signal and never exits on its own it returns 137.
C7_EscalationTerminates ==
    /\ (duration_seconds > 0 /\ kill_after_seconds > 0) => <>Returned
    /\ []((Returned /\ duration_seconds > 0 /\ kill_after_seconds > 0 /\ Stubborn)
            => ret = KilledCode)

\* C8: when the grace wait collects the child's exit, run() returns at once,
\* no KILL is sent then or later, and the value returned is not 137.
C8_GraceSuccess ==
    observed = "grace" => (Returned /\ killSent = 0 /\ ret # KilledCode)

C8_Witness ==
    observed = "grace" /\ kill_after_seconds > 0 /\ termSent = 1 /\ Returned

\* C9: a command that does not exist makes the program exit with 127, one
\* that exists but cannot be executed with 126, for every configuration.
C9_SpawnClassification ==
    (Returned /\ Started) =>
        /\ ExecResult(command_args[1]) = "ENOENT" => ret = ExecFailCode
        /\ ExecResult(command_args[1]) = "EACCES" => ret = NotInvokableCode

\* C10: when fork fails, run() returns 125 at once: it enters no wait,
\* collects nothing and sends neither the initial signal nor the KILL.
C10_SpawnFailure ==
    (pc # "start" /\ child_pid = NoPid) =>
        /\ Returned /\ ret = FailCode
        /\ termSent = 0 /\ killSent = 0 /\ diag = 0
        /\ observed = "none" /\ ~Started /\ ticks = 0

C10_Witness == Returned /\ child_pid = NoPid /\ ret = FailCode /\ ~Started

\* a KILL signal was sent to the child, by kill_process or as the
\* configured signal of terminate_process
KillWasSent ==
    killSent > 0 \/ (termSent > 0 /\ parse_signal(signal_name) = SIGKILL)

\* C11: when a waitpid call of the main or the grace wait has failed, run()
\* returns 125, not 124, 0 or 137.
C11_WaitFailure == (Returned /\ waitFailed) => ret = FailCode

\* C13: the initial signal is sent at most once and the KILL at most once in
\* a run, and once run() has left the timeout path's terminate_process the
\* initial signal has been sent exactly once.
C13_NoRetries ==
    /\ termSent <= 1
    /\ killSent <= 1
    /\ (Returned /\ Started /\ observed # "main") => termSent = 1
    /\ observed = "main" => termSent = 0

C13_Witness == Returned /\ termSent = 1 /\ killSent = 1

\* C15: run() returns 137 exactly when a KILL signal was sent to the child,
\* by escalation or because the configured signal is KILL.
C15_KillCode == Returned => (ret = KilledCode <=> KillWasSent)

\* C16: run() returns 0 only when the command has exited with status 0.
C16_ZeroMeansSuccess ==
    (Returned /\ ret = CompletedCode) => (ChildEnded /\ childStatus = 0)

\* C17: a child terminated before the deadline by a signal S that the
\* supervisor did not send makes run() return 128 + S.
C17_SignalStatus ==
    (Returned /\ exitedInTime /\ externalSig # 0) => ret = 128 + externalSig

\* C12: the number of diagnostic lines written equals the number of
\* termination actions sent (initial signal, forceful kill) when verbose is
\* set, and is zero when it is not.
C12_VerboseDiagnostics ==
    diag = IF verbose THEN termSent + killSent ELSE 0


\* the program has ended on its own account with the given exit code
Exited(code) == pc = "exit" /\ ret = code

\* C14: for every argument vector with bad duration syntax (main or
\* kill-after), a missing duration or command, or an unknown option, no child
\* process is spawned and the program exits with code 125.
C14_ConfigurationErrors ==
    argv \in BadDurationArgvs \cup MissingArgvs \cup UnknownOptionArgvs =>
        /\ ~Started
        /\ pc # "main" => Exited(FailCode)

\* numbers written in decimal, with their values as fractions
C18_Numbers ==
    {[text |-> D_0, num |-> 0, den |-> 1], [text |-> D_1, num |-> 1, den |-> 1],
     [text |-> D_2, num |-> 2, den |-> 1],
     [text |-> <<"3">>, num |-> 3, den |-> 1],
     [text |-> <<"5">>, num |-> 5, den |-> 1],
     [text |-> D_half, num |-> 1, den |-> 2],
     [text |-> <<"1", ".", "5">>, num |-> 3, den |-> 2],
     [text |-> <<"4", ".", "1">>, num |-> 41, den |-> 10],
     [text |-> <<"2", "4", "8", "5", "5">>, num |-> 24855, den |-> 1]}

\* the units with their multipliers
C18_Units ==
    {[text |-> <<>>, factor |-> 1], [text |-> <<"s">>, factor |-> 1],
     [text |-> <<"m">>, factor |-> 60], [text |-> <<"h">>, factor |-> 3600],
     [text |-> <<"d">>, factor |-> 86400]}

\* C18: for every non-negative number n, parse_duration yields n seconds for
\* "n" and "ns", 60n for "nm", 3600n for "nh" and 86400n for "nd".
C18_UnitMultipliers ==
    \A n \in C18_Numbers, u \in C18_Units :
        (pc = "parsed" /\ argv = <<n.text \o u.text>>) =>
            /\ parsed = "true"
            /\ duration_seconds * n.den = n.num * u.factor

\* texts that do not start with a number
C19_NotNumbers == {<<>>, D_bogus, D_nan, <<"-">>, <<".">>}

\* texts of negative numbers
C19_Negatives == {D_neg}

\* C19: parse_duration reports an error, and stores no duration, for every
\* text that does not start with a number and for every negative value.  An
\* exception that leaves parse_duration counts as a reported error here.
C19_ParseErrors ==
    \A n \in C19_NotNumbers \cup C19_Negatives, t \in TailTexts :
        (pc = "parsed" /\ argv = <<n \o t>>) =>
            /\ parsed # "true"
            /\ duration_seconds = Constructed.duration_seconds

\* texts that are a number and nothing else
C20_Numbers ==
    {D_0, D_1, D_2, <<"3">>, <<"5">>, D_half, <<"1", ".", "5">>,
     <<"4", ".", "1">>}

\* texts that are neither empty nor one of s, m, h, d
C20_BadTails == TailTexts \ {<<>>, <<"s">>, <<"m">>, <<"h">>, <<"d">>}

\* C20: parse_duration rejects every text in which the number is followed by
\* anything other than nothing or exactly one of the characters s, m, h, d.
C20_TrailingText ==
    \A n \in C20_Numbers, t \in C20_BadTails :
        (pc = "parsed" /\ argv = <<n \o t>>) => parsed # "true"


\* the recognized symbolic names with their signals
C21_Names ==
    {<<T_TERM, SIGTERM>>, <<T_INT, SIGINT>>, <<T_HUP, SIGHUP>>,
     <<T_KILL, SIGKILL>>, <<T_USR1, SIGUSR1>>, <<T_USR2, SIGUSR2>>}

\* t is a decimal integer: an optional sign and then digits only
C21_IsInteger(t) ==
    LET j == IF t # <<>> /\ t[1] \in {"+", "-"} THEN 2 ELSE 1
    IN  j <= Len(t) /\ DigitsEnd(t, j) = Len(t) + 1

\* the signal the claim gives the text t
C21_Expected(t) ==
    IF \E n \in C21_Names : t \in {n[1], T_SIG \o n[1]}
    THEN (CHOOSE n \in C21_Names : t \in {n[1], T_SIG \o n[1]})[2]
    ELSE IF C21_IsInteger(t)
    THEN (IF t[1] = "-" THEN 0 - IntOf(Natural(t, 2, Len(t) + 1, 10))
          ELSE IF t[1] = "+" THEN IntOf(Natural(t, 2, Len(t) + 1, 10))
          ELSE IntOf(Natural(t, 1, Len(t) + 1, 10)))
    ELSE SIGTERM

\* C21: parse_signal returns SIGTERM for every text that is neither a decimal
\* integer nor a recognized name (with or without SIG), the empty text,
\* lowercase names and digits followed by other characters among them;
\* recognized names map to their own signal and an integer to itself.
C21_SignalFallback ==
    pc = "resolved" => parsed = C21_Expected(argv[1])

\* run() is on its timeout path: wait_for_process(duration_seconds) returned
\* false
OnTimeoutPath == pc \in {"terminate", "kill", "kill_sleep"} \/ phase = "grace"

\* C22: if the child exits before the deadline elapses, then however the
\* child's exit, the clock and the poll steps interleave, run() sends no
\* signal and does not take the timeout path.
C22_ExitBeatsDeadline ==
    exitedInTime => (termSent = 0 /\ killSent = 0 /\ ~OnTimeoutPath)

\* C23: a forceful kill is sent only in runs where the initial signal was
\* sent earlier, kill-after is configured, and the full grace wait has ended
\* without the child's exit being observed.
C23_EscalationOrdering ==
    killSent = 1 =>
        /\ termSent = 1
        /\ kill_after_seconds > 0
        /\ phase = "grace" /\ observed = "none"
        /\ TimedOut(ticks, kill_after_seconds)

\* the index in a of the DURATION argument: the first argument that is
\* neither an option nor the value of -k or -s (Len(a) + 1 if there is none)
RECURSIVE UsageDurationIndex(_, _)
UsageDurationIndex(a, i) ==
    IF i > Len(a) THEN i
    ELSE IF a[i] \in {O_k, O_kill_after, O_s, O_signal}
    THEN UsageDurationIndex(a, i + 2)
    ELSE IF CharAt(a[i], 1) = "-" THEN UsageDurationIndex(a, i + 1)
    ELSE i

\* the argument vectors that follow the usage and give -k or --kill-after
\* among the options
C24_KillAfterArgvs ==
    {a \in GoodArgvs :
        \E i \in 1..(UsageDurationIndex(a, 1) - 1) : a[i] \in {O_k, O_kill_after}}

\* C24: whenever -k/--kill-after was given with a valid duration (0 and
\* fractions below one second among them), a child that is still alive after
\* the initial signal and the grace wait is forcefully killed and run()
\* returns 137: run() does not return from the timeout path leaving the child
\* running and unkilled.
C24_KillAfterHonoured ==
    (argv \in C24_KillAfterArgvs /\ Returned /\ termSent = 1
     /\ childState = "running") =>
        (killSent = 1 /\ ret = KilledCode)

\* C25: after the forceful kill run() returns 137 only once the child's
\* termination has been observed: wherever run() has returned 137 the child
\* has terminated and been waited for.
C25_ConfirmedTermination ==
    (Returned /\ ret = KilledCode) => childState = "reaped"

\* duration texts with their values in seconds, as fractions
C26_Durations ==
    {[text |-> D_0, num |-> 0, den |-> 1], [text |-> D_1, num |-> 1, den |-> 1],
     [text |-> D_1s, num |-> 1, den |-> 1], [text |-> D_2, num |-> 2, den |-> 1],
     [text |-> D_half, num |-> 1, den |-> 2],
     [text |-> D_1_5, num |-> 3, den |-> 2]}

\* C26: the duration and the kill-after value the supervisor uses equal the
\* real values written on the command line times their unit multipliers; a
\* positive duration is never turned into 0.
C26_FractionsKept ==
    \A n \in C26_Durations :
        /\ (parsed = "true" /\ argv = <<n.text, W_prog>>) =>
               duration_seconds * n.den = n.num
        /\ (parsed = "true" /\ argv = <<O_k, n.text, D_1, W_prog>>) =>
               kill_after_seconds * n.den = n.num

\* C27: from the call of run() to its return, duration_seconds,
\* kill_after_seconds, signal_name, preserve_status, verbose and command_args
\* are unchanged by every step.
C27_ConfigReadOnly == [][config' = config]_vars

C27_Witness ==
    Returned /\ killSent = 1 /\ verbose /\ signal_name = T_INT
    /\ kill_after_seconds > 0

\* C28: run() returns only values in the set {0, 124, 125, 137}, for every
\* configuration and every child behaviour.
C28_ReturnSet ==
    Returned => ret \in {CompletedCode, TimedOutCode, FailCode, KilledCode}

C28_Witness ==
    Returned /\ ret = CompletedCode /\ childStatus \in 1..MaxExitCode

\* at least t whole seconds have passed on the clock since the wait began
C29_Elapsed(t) == ticks * PollMs >= t * MsPerSecond

\* C29: absent a wait failure, wait_for_process(t) reports 'not completed'
\* only when at least t whole seconds have elapsed since the wait began: the
\* initial signal is about to be sent only duration seconds or more after the
\* main wait started, the forceful kill only kill-after seconds or more after
\* the grace wait started.
C29_NoPrematureTimeout ==
    ~waitFailed =>
        /\ pc = "terminate" => C29_Elapsed(duration_seconds)
        /\ pc \in {"kill", "kill_sleep"} => C29_Elapsed(kill_after_seconds)

C29_Witness ==
    pc = "kill" /\ ~waitFailed /\ termSent = 1 /\ duration_seconds > 0

\* C30: once waitpid has returned the child's pid, no kill() is issued for
\* that pid in the rest of the run.
C30_NoSignalAfterReap ==
    [][observed # "none" => (termSent' = termSent /\ killSent' = killSent
                             /\ pendingSig' = pendingSig)]_vars

C30_Witness ==
    observed = "grace" /\ Returned /\ termSent = 1 /\ childStatus = 128 + SIGTERM

\* C31: on the Windows variant the process handle is closed at most once per
\* run and is never passed to WaitForSingleObject, TerminateProcess or
\* CloseHandle after it has been closed.
C31_HandleDiscipline == handle_closes <= 1 /\ stale_calls = 0

\* the argument vector a up to DURATION, followed by a plain command
C32_UpToDuration(a) == SubSeq(a, 1, UsageDurationIndex(a, 1)) \o <<W_prog>>

\* C32: after a successful parse_args, command_args is exactly the sequence
\* of arguments following the DURATION argument, in order, and none of them
\* changes kill-after, signal, preserve-status or verbose: these are what
\* the arguments up to DURATION alone give.
C32_CommandArguments ==
    parsed = "true" =>
        /\ command_args = SubSeq(argv, UsageDurationIndex(argv, 1) + 1, Len(argv))
        /\ \E o \in parse_args(C32_UpToDuration(argv)) :
            /\ o.result = "true"
            /\ o.fields.kill_after_seconds = kill_after_seconds
            /\ o.fields.signal_name = signal_name
            /\ o.fields.preserve_status = preserve_status
            /\ o.fields.verbose = verbose

C32_Witness ==
    /\ parsed = "true" /\ Returned
    /\ \E k \in 1..Len(command_args) : command_args[k] \in {O_k, O_p, O_v}
    /\ kill_after_seconds = 0 /\ ~preserve_status /\ ~verbose

\* the upper half of 1000 * t in the integers (it exceeds 16 bits when the
\* product does not fit 32)
C33_ExactHigh(t) ==
    (t \div Half) * MsPerSecond + ((t % Half) * MsPerSecond) \div Half

\* C33: on the Windows variant the millisecond timeout handed to
\* WaitForSingleObject equals 1000 times the configured seconds for every
\* duration parse_duration accepts; the 32-bit multiplication never wraps
\* and never produces INFINITE.
C33_MillisExact ==
    (pc = "win_wait" /\ process_handle # "INVALID") =>
        LET m == MillisProduct(CurrentTimeout) IN
        /\ ~m.overflow
        /\ m.hi = C33_ExactHigh(CurrentTimeout)
        /\ [hi |-> m.hi, lo |-> m.lo] # INFINITE

====
